---------------------------- MODULE Spec2Model ----------------------------
(***************************************************************************)
(* A model of the two stateful/algorithmic scripts of the repository:      *)
(*                                                                         *)
(*   src/locuststudy/test1.py     JSONToExcelTool: parse a JSON document,  *)
(*                                extract the test cases, project each to  *)
(*                                a twelve-column row, return a result.    *)
(*   src/locuststudy/ai agent.py  the process-wide token_stats counter     *)
(*                                updated by locust tasks.                 *)
(*                                                                         *)
(* JSON documents are tagged values.  An object is an ORDERED sequence of  *)
(* <<key, value>> entries with distinct keys, because a Python dict keeps  *)
(* insertion order and dict.values() / dict.items() iterate in it.         *)
(* Non-ASCII literals of the source are written in English:                *)
(*   '用例ID' "ID", '用例名称' "Name", '模块' "Module", '优先级' "Priority",   *)
(*   '前置条件' "Preconditions", '测试步骤' "Steps", '预期结果' "Expected",    *)
(*   '测试数据' "Test Data", '状态' "Status", '创建人' "Author",              *)
(*   '创建时间' "Created", '备注' "Remarks", '未执行' "not executed",         *)
(*   '转换失败' "conversion failed".                                        *)
(***************************************************************************)
EXTENDS Integers, Sequences, FiniteSets, TLC

VARIABLES
    pc,            \* position of JSONToExcelTool.run
    json_input,    \* argument of run
    options,       \* **kwargs of run
    data,          \* run's local `data` (the parsed document)
    test_cases,    \* run's local `test_cases`, as references into `data`
    rows,          \* the `rows` list of _generate_excel / _generate_csv
    generated,     \* run's local `result` (what the generator returned)
    exc,           \* the exception in flight / bound by `except Exception as e`
    result,        \* the value run returns
    stats_defined, \* whether the global token_stats has been assigned
    token_stats,   \* the global token_stats of ai agent.py
    task_pc,       \* position of each test_with_custom_metrics execution
    response       \* the response each execution received

toolVars == <<pc, json_input, options, data, test_cases, rows, generated, exc, result>>
tokenVars == <<stats_defined, token_stats, task_pc, response>>
vars == <<pc, json_input, options, data, test_cases, rows, generated, exc, result,
          stats_defined, token_stats, task_pc, response>>

---------------------------------------------------------------------------
(* Bounds of the model.                                                    *)

MaxLen == 3      \* longest bare list of candidate records
MaxSteps == 2    \* longest "steps" list
MaxFields == 2   \* most fields of a generated flat record
MaxKeys == 2     \* most entries of a generated keyed top-level object
MaxDepth == 3    \* nesting depth of the generated deep documents
MaxTasks == 3    \* executions of test_with_custom_metrics
MaxTokens == 2   \* largest input_tokens / output_tokens of a response

---------------------------------------------------------------------------
(* JSON values.                                                            *)

Str(s) == [t |-> "str", s |-> s]
Num(n) == [t |-> "num", n |-> n]
Null == [t |-> "null"]
List(items) == [t |-> "list", items |-> items]
Obj(items) == [t |-> "obj", items |-> items]

IsStr(v) == v.t = "str"
IsList(v) == v.t = "list"
IsDict(v) == v.t = "obj"

\* `key in obj`
HasKey(obj, k) == \E i \in 1..Len(obj.items) : obj.items[i][1] = k

\* position of key k among the entries of obj (the key is present)
KeyIndex(obj, k) == CHOOSE i \in 1..Len(obj.items) : obj.items[i][1] = k

\* obj[k]
Item(obj, k) == obj.items[KeyIndex(obj, k)][2]

\* obj.get(k, default): the default is used only when the key is ABSENT
Get(obj, k, default) == IF HasKey(obj, k) THEN Item(obj, k) ELSE default

\* The object a reference designates.  A reference is the path from the
\* document root to the object: Python lists and dicts hold references, and
\* every object of a parsed JSON tree is reached by exactly one path.
RECURSIVE ValueAt(_, _)
ValueAt(v, ref) ==
    IF ref = <<>> THEN v
    ELSE IF IsList(v) THEN ValueAt(v.items[Head(ref)], Tail(ref))
    ELSE ValueAt(v.items[Head(ref)][2], Tail(ref))

RECURSIVE Concat(_)
Concat(seqs) == IF seqs = <<>> THEN <<>> ELSE Head(seqs) \o Concat(Tail(seqs))

---------------------------------------------------------------------------
(* _is_test_case, _deep_search_test_cases, _extract_test_cases.            *)

test_case_indicators == <<"id", "case_id", "title", "name", "steps">>
possible_keys == <<"test_cases", "cases", "testCases", "testcases", "items">>

\* any(indicator in obj for indicator in test_case_indicators)
IsTestCase(obj) ==
    \E i \in 1..Len(test_case_indicators) : HasKey(obj, test_case_indicators[i])

\* A deep search that does not look inside lists.
RECURSIVE DeepSearchSkippingLists(_, _)
DeepSearchSkippingLists(d, ref) ==
    IF IsDict(d) THEN
        IF IsTestCase(d) THEN << ref >>
        ELSE Concat([i \in 1..Len(d.items) |->
                        DeepSearchSkippingLists(d.items[i][2], Append(ref, i))])
    ELSE <<>>

\* A deep search that collects a matching object and goes on into its values.
RECURSIVE DeepSearchDescending(_, _)
DeepSearchDescending(d, ref) ==
    IF IsDict(d) THEN
        (IF IsTestCase(d) THEN << ref >> ELSE <<>>)
        \o Concat([i \in 1..Len(d.items) |->
                        DeepSearchDescending(d.items[i][2], Append(ref, i))])
    ELSE IF IsList(d) THEN
        Concat([i \in 1..Len(d.items) |->
                        DeepSearchDescending(d.items[i], Append(ref, i))])
    ELSE <<>>

\* _deep_search_test_cases(data): the references appended to `results`, in
\* order.  `ref` is the reference of `d` itself.
RECURSIVE DeepSearchTestCases(_, _)
DeepSearchTestCases(d, ref) ==
    IF IsDict(d) THEN
        IF IsTestCase(d) THEN << ref >>
        ELSE Concat([i \in 1..Len(d.items) |->
                        DeepSearchTestCases(d.items[i][2], Append(ref, i))])
    ELSE IF IsList(d) THEN
        Concat([i \in 1..Len(d.items) |->
                        DeepSearchTestCases(d.items[i], Append(ref, i))])
    ELSE <<>>

\* The references of the elements of the list at `ref`.
ElementRefs(lst, ref) == [i \in 1..Len(lst.items) |-> Append(ref, i)]

\* The loop over possible_keys: the index of the first key that is in the
\* object with a list value (where the loop breaks), 0 when there is none.
RECURSIVE FirstListKey(_, _)
FirstListKey(d, i) ==
    IF i > Len(possible_keys) THEN 0
    ELSE IF HasKey(d, possible_keys[i]) /\ IsList(Item(d, possible_keys[i])) THEN i
    ELSE FirstListKey(d, i + 1)

\* An extraction that keeps only the list elements that look like test cases.
ExtractFilteringList(d) ==
    IF IsList(d) THEN
        SelectSeq(ElementRefs(d, <<>>),
                  LAMBDA r : IsDict(ValueAt(d, r)) /\ IsTestCase(ValueAt(d, r)))
    ELSE IF IsDict(d) THEN DeepSearchTestCases(d, <<>>)
    ELSE <<>>

\* _extract_test_cases(data)
ExtractTestCases(d) ==
    IF IsList(d) THEN ElementRefs(d, <<>>)
    ELSE IF IsDict(d) THEN
        LET k == FirstListKey(d, 1)
            found == IF k = 0 THEN <<>>
                     ELSE ElementRefs(Item(d, possible_keys[k]),
                                      << KeyIndex(d, possible_keys[k]) >>)
        IN  \* `if not test_cases:` is true of an empty list, found or not
            IF found = <<>> THEN DeepSearchTestCases(d, <<>>)
            ELSE found
    ELSE <<>>

---------------------------------------------------------------------------
(* _format_steps, _format_expected, _format_test_data,                     *)
(* _prepare_test_case_row.                                                 *)

\* str(v) as an f-string renders it, for the scalars of the model
PyStr(v) ==
    CASE v.t = "str" -> v.s
      [] v.t = "num" -> ToString(v.n)
      [] v.t = "null" -> "None"

\* '\n'.join(lines)
RECURSIVE JoinNL(_)
JoinNL(lines) ==
    IF lines = <<>> THEN ""
    ELSE IF Len(lines) = 1 THEN lines[1]
    ELSE lines[1] \o "\n" \o JoinNL(Tail(lines))

\* The list `formatted` of _format_steps after the loop has handled the
\* elements i..: `first` is the number enumerate gives the first element.
RECURSIVE FormattedSteps(_, _, _)
FormattedSteps(items, i, first) ==
    IF i > Len(items) THEN <<>>
    ELSE LET step == items[i]
             n == ToString(first + i - 1)
             line == IF IsDict(step) THEN
                         << n \o ". " \o PyStr(Get(step, "action",
                                                   Get(step, "step", Str("")))) >>
                     ELSE IF IsStr(step) THEN << n \o ". " \o step.s >>
                     ELSE <<>>
         IN  line \o FormattedSteps(items, i + 1, first)

\* _format_steps with enumerate(steps) counting from 0.
FormatStepsFromZero(steps) ==
    IF IsList(steps) THEN JoinNL(FormattedSteps(steps.items, 1, 0))
    ELSE IF IsStr(steps) THEN steps.s
    ELSE ""

\* _format_steps(steps)
FormatSteps(steps) ==
    IF IsList(steps) THEN JoinNL(FormattedSteps(steps.items, 1, 1))
    ELSE IF IsStr(steps) THEN steps.s
    ELSE ""

\* _format_expected(expected)
FormatExpected(expected) ==
    IF IsList(expected) THEN
        JoinNL([i \in 1..Len(expected.items) |->
                    ToString(i) \o ". " \o PyStr(expected.items[i])])
    ELSE IF IsStr(expected) THEN expected.s
    ELSE ""

\* _format_test_data(test_data)
FormatTestData(test_data) ==
    IF IsDict(test_data) THEN
        JoinNL([i \in 1..Len(test_data.items) |->
                    test_data.items[i][1] \o ": " \o PyStr(test_data.items[i][2])])
    ELSE IF IsStr(test_data) THEN test_data.s
    ELSE ""

\* `a or b` on the values of the model: a is falsy when '' or None
PyOr(a, b) == IF a = Str("") \/ a = Null THEN b ELSE a

\* The twelve columns, given the cells of the three columns with a fallback.
RowWith(test_case, id, name, module) ==
    << << "ID", id >>,
       << "Name", name >>,
       << "Module", module >>,
       << "Priority", Get(test_case, "priority", Str("")) >>,
       << "Preconditions", Get(test_case, "preconditions", Str("")) >>,
       << "Steps", Str(FormatSteps(Get(test_case, "steps", List(<<>>)))) >>,
       << "Expected", Str(FormatExpected(Get(test_case, "expected", Str("")))) >>,
       << "Test Data", Str(FormatTestData(Get(test_case, "test_data", Obj(<<>>)))) >>,
       << "Status", Get(test_case, "status", Str("not executed")) >>,
       << "Author", Get(test_case, "author", Str("")) >>,
       << "Created", Get(test_case, "created_date", Str("")) >>,
       << "Remarks", Get(test_case, "remarks", Str("")) >> >>

\* A row whose fallback columns take the first NON-EMPTY alternative
\* (test_case.get('id') or test_case.get('case_id', '')).
PrepareRowFirstNonEmpty(test_case) ==
    RowWith(test_case,
            PyOr(Get(test_case, "id", Null), Get(test_case, "case_id", Str(""))),
            PyOr(Get(test_case, "title", Null), Get(test_case, "name", Str(""))),
            PyOr(Get(test_case, "module", Null), Get(test_case, "category", Str(""))))

\* A row that leaves out the columns the record gives no value for.
PrepareRowWithoutBlanks(test_case) ==
    SelectSeq(RowWith(test_case,
                      Get(test_case, "id", Get(test_case, "case_id", Str(""))),
                      Get(test_case, "title", Get(test_case, "name", Str(""))),
                      Get(test_case, "module", Get(test_case, "category", Str("")))),
              LAMBDA c : c[2] # Str(""))

\* _prepare_test_case_row(test_case): the row as the ordered sequence of its
\* <<label, value>> items.  A value taken with .get is the record's own value,
\* whatever it is; the three formatted columns are strings.
PrepareTestCaseRow(test_case) ==
    << << "ID", Get(test_case, "id", Get(test_case, "case_id", Str(""))) >>,
       << "Name", Get(test_case, "title", Get(test_case, "name", Str(""))) >>,
       << "Module", Get(test_case, "module", Get(test_case, "category", Str(""))) >>,
       << "Priority", Get(test_case, "priority", Str("")) >>,
       << "Preconditions", Get(test_case, "preconditions", Str("")) >>,
       << "Steps", Str(FormatSteps(Get(test_case, "steps", List(<<>>)))) >>,
       << "Expected", Str(FormatExpected(Get(test_case, "expected", Str("")))) >>,
       << "Test Data", Str(FormatTestData(Get(test_case, "test_data", Obj(<<>>)))) >>,
       << "Status", Get(test_case, "status", Str("not executed")) >>,
       << "Author", Get(test_case, "author", Str("")) >>,
       << "Created", Get(test_case, "created_date", Str("")) >>,
       << "Remarks", Get(test_case, "remarks", Str("")) >> >>

\* row[label]
Cell(row, label) == row[CHOOSE i \in 1..Len(row) : row[i][1] = label][2]

\* list(row.keys())
Labels(row) == [i \in 1..Len(row) |-> row[i][1]]

---------------------------------------------------------------------------
(* The documents and inputs the model runs the tool on.                    *)

\* Sequences over S of length at most n
RECURSIVE SeqsUpTo(_, _)
SeqsUpTo(S, n) ==
    IF n = 0 THEN {<<>>}
    ELSE LET P == SeqsUpTo(S, n - 1)
         IN  P \cup {Append(p, x) : p \in {q \in P : Len(q) = n - 1}, x \in S}

\* Strictly increasing index sequences over 1..n of length at most k
RECURSIVE IncSeqs(_, _)
IncSeqs(n, k) ==
    IF k = 0 THEN {<<>>}
    ELSE LET P == IncSeqs(n, k - 1)
             Ext == {pj \in P \X (1..n) :
                        /\ Len(pj[1]) = k - 1
                        /\ pj[1] = <<>> \/ pj[2] > pj[1][Len(pj[1])]}
         IN  P \cup {Append(pj[1], pj[2]) : pj \in Ext}

\* Whether the entries of a sequence of <<key, value>> have distinct keys
DistinctKeys(entries) ==
    \A i, j \in 1..Len(entries) : i # j => entries[i][1] # entries[j][1]

RecA == Obj(<< <<"id", Str("TC1")>>, <<"title", Str("Login")>>,
               <<"steps", List(<< Str("open"), Str("submit") >>)>> >>)
RecB == Obj(<< <<"case_id", Str("TC9")>> >>)
RecPlain == Obj(<< <<"note", Str("n")>> >>)

\* Elements of a bare list: records with and without an indicator key, and
\* a string (no record at all).
ListElems == {RecA, RecB, RecPlain, Str("junk")}

BareListDocs == {List(s) : s \in SeqsUpTo(ListElems, MaxLen)}


\* The fields a flat record is made of (a record takes some of them, in this
\* order, each key at most once).
FieldChoices ==
    << <<"id", Str("")>>, <<"id", Str("TC1")>>,
       <<"case_id", Str("TC9")>>,
       <<"title", Str("")>>, <<"title", Str("Login")>>,
       <<"name", Str("smoke")>>,
       <<"module", Str("")>>, <<"module", Str("auth")>>,
       <<"category", Str("ui")>>,
       <<"priority", Str("high")>>,
       <<"preconditions", Str("logged out")>>,
       <<"expected", Str("ok")>>,
       <<"expected", List(<< Str("shown"), Num(2) >>)>>,
       <<"expected", Num(7)>>,
       <<"test_data", Obj(<< <<"username", Str("a")>>, <<"password", Str("b")>> >>)>>,
       <<"test_data", Str("raw")>>,
       <<"test_data", Null>>,
       <<"status", Str("passed")>>, <<"status", Str("")>>,
       <<"author", Str("amy")>>,
       <<"created_date", Str("2024-01-01")>>,
       <<"remarks", Str("r")>>,
       <<"note", Str("n")>> >>

FlatRecords ==
    {Obj(r) : r \in {e \in {[i \in 1..Len(ix) |-> FieldChoices[ix[i]]] :
                                ix \in IncSeqs(Len(FieldChoices), MaxFields)} :
                        DistinctKeys(e)}}

\* The elements of a "steps" list: strings, dict-shaped steps with "action",
\* with "step", with both, with neither, and a number.
StepElems ==
    { Str("open page"), Str("click login"),
      Obj(<< <<"action", Str("type")>> >>),
      Obj(<< <<"step", Str("press")>> >>),
      Obj(<< <<"step", Num(1)>>, <<"action", Str("go")>> >>),
      Obj(<< <<"expected", Str("x")>> >>),
      Num(5) }

StepsValues ==
    {List(s) : s \in SeqsUpTo(StepElems, MaxSteps)}
        \cup {Str("do it"), Num(3), Null, Obj(<< <<"action", Str("a")>> >>)}

StepsRecords == {Obj(<< <<"steps", sv>> >>) : sv \in StepsValues}

\* Documents for the deep search: wrappers without an indicator key, records,
\* records that hold further records, and lists, nested d levels deep.
RECURSIVE Nested(_)
Nested(d) ==
    IF d = 0 THEN {Str("x"), Obj(<< <<"id", Str("TC1")>> >>), RecPlain}
    ELSE LET N == Nested(d - 1)
         IN  N \cup {Obj(<< <<"data", a>> >>) : a \in N}
               \cup {Obj(<< <<"data", a>>, <<"more", Obj(<< <<"name", Str("m")>> >>)>> >>)
                        : a \in N}
               \cup {Obj(<< <<"title", Str("parent")>>, <<"child", a>> >>) : a \in N}
               \cup {List(<< a >>) : a \in N}
               \cup {List(<< a, RecB >>) : a \in N}

DeepDocs == Nested(MaxDepth)

\* Entries of a keyed top-level object: each container key with an empty list,
\* a list of one record naming the key, or a string; an indicator key; a
\* wrapper holding a record.
KeyedEntries ==
    {<<possible_keys[i], List(<<>>)>> : i \in 1..Len(possible_keys)}
        \cup {<<possible_keys[i], List(<< Obj(<< <<"id", Str(possible_keys[i])>> >>) >>)>>
                : i \in 1..Len(possible_keys)}
        \cup {<<possible_keys[i], Str("none")>> : i \in 1..Len(possible_keys)}
        \cup { <<"id", Str("DOC")>>,
               <<"data", Obj(<< <<"inner", RecB>> >>)>>,
               <<"meta", Str("v1")>> }

KeyedDocs ==
    {Obj(e) : e \in {s \in SeqsUpTo(KeyedEntries, MaxKeys) : DistinctKeys(s)}}

ScalarDocs == {Str("text"), Num(0), Null}

Docs ==
    BareListDocs \cup {List(<< r >>) : r \in FlatRecords \cup StepsRecords}
        \cup DeepDocs \cup KeyedDocs \cup ScalarDocs


\* An input of run: a literal JSON text (os.path.exists is false) or the path
\* of an existing file, readable or not, holding a text; the text is
\* well-formed JSON denoting `doc`, or it is not JSON (such as "{not json").
Inputs ==
    {[kind |-> "text", wellformed |-> TRUE, doc |-> d] : d \in Docs}
        \cup {[kind |-> "file", wellformed |-> TRUE, doc |-> d]
                : d \in ScalarDocs \cup {List(<< RecA >>), List(<< Str("junk") >>)}}
        \cup {[kind |-> k, wellformed |-> FALSE, doc |-> Null]
                : k \in {"text", "file"}}
        \cup {[kind |-> "unreadable", wellformed |-> TRUE, doc |-> Null]}

\* The values run reads from **kwargs (absent keys already defaulted).
Options ==
    [output_format : {"excel", "csv", "pdf"}, include_styling : BOOLEAN,
     filename : {"test_cases", "report"}]

None == [none |-> TRUE]

---------------------------------------------------------------------------
(* JSONToExcelTool.run, step by step.                                      *)

\* What _parse_json_input raises on an input, "" when it returns.
ParseRaises(input) ==
    IF input.kind = "unreadable" THEN "OSError"
    ELSE IF ~input.wellformed THEN "JSONDecodeError"
    ELSE ""

\* An `except ValueError` clause.
CatchesValueError(e) == e \in {"JSONDecodeError", "ValueError"}

\* `except Exception`: every exception the steps raise is an Exception
Catches(e) == e \in {"JSONDecodeError", "ValueError", "OSError", "AttributeError"}

InitTool ==
    /\ pc = "start"
    /\ json_input \in Inputs
    /\ options \in Options
    /\ data = None
    /\ test_cases = <<>>
    /\ rows = <<>>
    /\ generated = None
    /\ exc = ""
    /\ result = None

\* data = self._parse_json_input(json_input)
ParseJsonInput ==
    /\ pc = "start"
    /\ IF ParseRaises(json_input) = ""
       THEN /\ data' = json_input.doc
            /\ pc' = "parsed"
            /\ exc' = exc
       ELSE /\ exc' = ParseRaises(json_input)
            /\ pc' = "raised"
            /\ data' = data
    /\ UNCHANGED <<json_input, options, test_cases, rows, generated, result>>
    /\ UNCHANGED tokenVars

\* test_cases = self._extract_test_cases(data)
Extract ==
    /\ pc = "parsed"
    /\ test_cases' = ExtractTestCases(data)
    /\ pc' = "extracted"
    /\ UNCHANGED <<json_input, options, data, rows, generated, exc, result>>
    /\ UNCHANGED tokenVars

\* The test cases of run, as values
TestCases == [i \in 1..Len(test_cases) |-> ValueAt(data, test_cases[i])]

\* The loop `for case in test_cases: rows.append(self._prepare_test_case_row(case))`
\* raises AttributeError at the first case that has no .get
RowsRaise == \E i \in 1..Len(TestCases) : ~IsDict(TestCases[i])
PreparedRows == [i \in 1..Len(TestCases) |-> PrepareTestCaseRow(TestCases[i])]

\* result = self._generate_excel(test_cases, filename, include_styling).
\* file_content stands for the encoded workbook: the table it holds, whether
\* it was styled, and the encoding.  The "preview" text is left out.  The
\* cells taken with .get are scalars in every document of the model (the
\* workbook writer refuses a list or a dict as a cell value).
GenerateExcel ==
    /\ pc = "extracted"
    /\ options.output_format = "excel"
    /\ IF RowsRaise
       THEN /\ exc' = "AttributeError"
            /\ pc' = "raised"
            /\ UNCHANGED <<rows, generated>>
       ELSE /\ rows' = PreparedRows
            /\ generated' =
                  [file_content |-> [encoding |-> "base64",
                                     styled |-> options.include_styling,
                                     table |-> PreparedRows],
                   filename |-> options.filename \o ".xlsx",
                   file_type |-> "application/vnd.openxmlformats-officedocument.spreadsheetml.sheet",
                   download_url |-> None]
            /\ pc' = "generated"
            /\ exc' = exc
    /\ UNCHANGED <<json_input, options, data, test_cases, result>>
    /\ UNCHANGED tokenVars

\* result = self._generate_csv(test_cases, filename).  file_content stands
\* for the CSV text; the "preview" text is left out.
GenerateCsv ==
    /\ pc = "extracted"
    /\ options.output_format # "excel"
    /\ IF RowsRaise
       THEN /\ exc' = "AttributeError"
            /\ pc' = "raised"
            /\ UNCHANGED <<rows, generated>>
       ELSE /\ rows' = PreparedRows
            /\ generated' =
                  [file_content |-> [encoding |-> "utf-8-sig", table |-> PreparedRows],
                   filename |-> options.filename \o ".csv",
                   file_type |-> "text/csv"]
            /\ pc' = "generated"
            /\ exc' = exc
    /\ UNCHANGED <<json_input, options, data, test_cases, result>>
    /\ UNCHANGED tokenVars

\* return {"success": True, ...}
ReturnSuccess ==
    /\ pc = "generated"
    /\ result' = [success |-> TRUE,
                  data |-> generated,
                  message |-> "converted " \o ToString(Len(test_cases)) \o " test cases",
                  metadata |-> [test_case_count |-> Len(test_cases),
                                output_format |-> options.output_format,
                                generated_at |-> "now"]]
    /\ pc' = "done"
    /\ UNCHANGED <<json_input, options, data, test_cases, rows, generated, exc>>
    /\ UNCHANGED tokenVars

\* except Exception as e: return {"success": False, ...}; an exception the
\* clause does not catch leaves run
HandleException ==
    /\ pc = "raised"
    /\ IF Catches(exc)
       THEN /\ result' = [success |-> FALSE, error |-> exc,
                          message |-> "conversion failed"]
            /\ pc' = "done"
       ELSE /\ pc' = "escaped"
            /\ result' = result
    /\ UNCHANGED <<json_input, options, data, test_cases, rows, generated, exc>>
    /\ UNCHANGED tokenVars

NextTool ==
    \/ ParseJsonInput
    \/ Extract
    \/ GenerateExcel
    \/ GenerateCsv
    \/ ReturnSuccess
    \/ HandleException

---------------------------------------------------------------------------
(* ai agent.py: on_locust_init and test_with_custom_metrics.               *)
(* Locust runs every user as a gevent greenlet of one process: a greenlet  *)
(* runs until it blocks, so a task yields in self.client.post and runs     *)
(* lines 26-37 without interruption once the response is there.            *)

Tasks == 1..MaxTasks

ZeroStats == [total_input_tokens |-> 0, total_output_tokens |-> 0, request_count |-> 0]

\* The bodies of a response: a JSON object with or without each token field
TokenEntries(k) == {<<>>} \cup {<< <<k, Num(n)>> >> : n \in 1..MaxTokens}
Bodies == {Obj(i \o o) : i \in TokenEntries("input_tokens"),
                         o \in TokenEntries("output_tokens")}

Responses ==
    {[status_code |-> 200, body |-> b] : b \in Bodies}
        \cup {[status_code |-> 500,
               body |-> Obj(<< <<"input_tokens", Num(1)>>, <<"output_tokens", Num(1)>> >>)],
              [status_code |-> 404, body |-> Obj(<<>>)]}

\* data.get("input_tokens", 0), data.get("output_tokens", 0)
InputTokens(body) == Get(body, "input_tokens", Num(0)).n
OutputTokens(body) == Get(body, "output_tokens", Num(0)).n

\* The three updates written with = where the source has +=.
AssignTokenStats(stats, body) ==
    [total_input_tokens |-> InputTokens(body),
     total_output_tokens |-> OutputTokens(body),
     request_count |-> 1]

\* token_stats[...] += ... (lines 33-35)
UpdateTokenStats(stats, body) ==
    [total_input_tokens |-> stats.total_input_tokens + InputTokens(body),
     total_output_tokens |-> stats.total_output_tokens + OutputTokens(body),
     request_count |-> stats.request_count + 1]

InitTokens ==
    /\ stats_defined = FALSE
    /\ token_stats = None
    /\ task_pc = [t \in Tasks |-> "idle"]
    /\ response = [t \in Tasks |-> None]

\* @events.init.add_listener: fired once, before any user is spawned
OnLocustInit ==
    /\ ~stats_defined
    /\ stats_defined' = TRUE
    /\ token_stats' = ZeroStats
    /\ UNCHANGED <<task_pc, response>>
    /\ UNCHANGED toolVars

\* self.client.post("/api/chat", ...): the request is sent and the greenlet
\* waits for the response
PostChat(t) ==
    /\ stats_defined
    /\ task_pc[t] = "idle"
    /\ task_pc' = [task_pc EXCEPT ![t] = "posting"]
    /\ UNCHANGED <<stats_defined, token_stats, response>>
    /\ UNCHANGED toolVars

\* The response arrives and the task runs to its end
ReceiveResponse(t) ==
    /\ task_pc[t] = "posting"
    /\ \E r \in Responses :
          /\ response' = [response EXCEPT ![t] = r]
          /\ token_stats' = IF r.status_code = 200
                            THEN UpdateTokenStats(token_stats, r.body)
                            ELSE token_stats
    /\ task_pc' = [task_pc EXCEPT ![t] = "done"]
    /\ UNCHANGED stats_defined
    /\ UNCHANGED toolVars

NextTokens ==
    \/ OnLocustInit
    \/ \E t \in Tasks : PostChat(t)
    \/ \E t \in Tasks : ReceiveResponse(t)

---------------------------------------------------------------------------
(* The specifications.                                                     *)

\* One call of JSONToExcelTool.run on any input of the model
Init == InitTool /\ InitTokens
Spec == Init /\ [][NextTool]_vars

\* One locust process running test_with_custom_metrics MaxTasks times
TokenInitTool ==
    /\ pc = "start"
    /\ json_input = [kind |-> "text", wellformed |-> FALSE, doc |-> Null]
    /\ options = [output_format |-> "excel", include_styling |-> TRUE,
                  filename |-> "test_cases"]
    /\ data = None
    /\ test_cases = <<>>
    /\ rows = <<>>
    /\ generated = None
    /\ exc = ""
    /\ result = None

TokenInit == TokenInitTool /\ InitTokens
TokenSpec == TokenInit /\ [][NextTokens]_vars

---------------------------------------------------------------------------
(* Properties of run and of the extraction.                                *)

\* _extract_test_cases has returned (data is assigned by the parse alone)
Extracted == data # None /\ pc # "parsed"

\* The container keys of d that are mapped to a list
IsListKey(d, k) == HasKey(d, k) /\ IsList(Item(d, k))

\* C1: run always returns a result mapping and no exception leaves it; when
\* the parse or the row projection raises, what it returns is exactly
\* {success: false, error, message}, with no data and no metadata; text that
\* is not JSON gives success = false.
RunNeverLeaksAnException ==
    /\ pc # "escaped"
    /\ pc = "done" => /\ result # None
                      /\ result.success \in BOOLEAN
    /\ (pc = "done" /\ (exc # "" \/ ParseRaises(json_input) # ""
                          \/ (data # None /\ RowsRaise)))
          => /\ DOMAIN result = {"success", "error", "message"}
             /\ result.success = FALSE
    /\ (pc = "done" /\ ~json_input.wellformed) => result.success = FALSE

\* C1 witness: the row projection raised on a record that is no dict and run
\* returned the failure result.
ProjectionFailureReturned ==
    /\ pc = "done"
    /\ exc = "AttributeError"
    /\ json_input.doc = List(<< RecA, Str("junk") >>)
    /\ result = [success |-> FALSE, error |-> "AttributeError",
                 message |-> "conversion failed"]

\* C2: an object with "test_cases" mapped to a list, of any length, is
\* extracted to exactly that list, whatever its other keys.
KeyedTestCasesListAlwaysWins ==
    (Extracted /\ IsDict(data) /\ IsListKey(data, "test_cases"))
        => TestCases = Item(data, "test_cases").items

\* C3: the value of the first container key, in the declared order, that is
\* mapped to a list is what extraction returns, and nothing else.
FirstListKeyIsSelected ==
    (Extracted /\ IsDict(data))
        => \A i \in 1..Len(possible_keys) :
              (/\ IsListKey(data, possible_keys[i])
               /\ \A j \in 1..(i - 1) : ~IsListKey(data, possible_keys[j]))
                  => TestCases = Item(data, possible_keys[i]).items

\* C4: a document that is a bare list is extracted to all its elements, in
\* order and unfiltered, and a successful run reports their number.
BareListIsTakenWhole ==
    (Extracted /\ IsList(data))
        => /\ TestCases = data.items
           /\ test_cases = [i \in 1..Len(data.items) |-> << i >>]
           /\ (pc = "done" /\ result.success)
                 => result.metadata.test_case_count = Len(data.items)

\* C4 witness: a successful run on a list whose first element has no
\* indicator key.
BareListWithPlainRecordConverted ==
    /\ pc = "done"
    /\ data = List(<< RecPlain, RecA, RecB >>)
    /\ result.success
    /\ result.metadata.test_case_count = 3

\* The rows of the run and the records they were made from
RowIndices == 1..Len(rows)

NonEmpty(v) == v # Str("")

FirstNonEmpty(tc, k1, k2) ==
    IF HasKey(tc, k1) /\ NonEmpty(Item(tc, k1)) THEN Item(tc, k1)
    ELSE Get(tc, k2, Str(""))

FirstPresent(tc, k1, k2) ==
    IF HasKey(tc, k1) THEN Item(tc, k1)
    ELSE IF HasKey(tc, k2) THEN Item(tc, k2)
    ELSE Str("")

\* C5 as stated: ID, Name and Module are the first NON-EMPTY of their two
\* fields.
FallbackIsFirstNonEmpty ==
    \A i \in RowIndices :
        /\ Cell(rows[i], "ID") = FirstNonEmpty(TestCases[i], "id", "case_id")
        /\ Cell(rows[i], "Name") = FirstNonEmpty(TestCases[i], "title", "name")
        /\ Cell(rows[i], "Module") = FirstNonEmpty(TestCases[i], "module", "category")

\* C5 amended: ID, Name and Module are the value of the first of their two
\* fields that is PRESENT in the record, empty or not, and the empty string
\* when neither is.
FallbackIsFirstPresent ==
    \A i \in RowIndices :
        /\ Cell(rows[i], "ID") = FirstPresent(TestCases[i], "id", "case_id")
        /\ Cell(rows[i], "Name") = FirstPresent(TestCases[i], "title", "name")
        /\ Cell(rows[i], "Module") = FirstPresent(TestCases[i], "module", "category")

\* C5 witness: a record with id = "" and case_id = "TC9" was projected, and
\* its ID is "".
EmptyIdShadowsCaseId ==
    \E i \in RowIndices :
        /\ TestCases[i] = Obj(<< <<"id", Str("")>>, <<"case_id", Str("TC9")>> >>)
        /\ Cell(rows[i], "ID") = Str("")

\* The text a steps element contributes
ElementText(el) ==
    IF IsStr(el) THEN el.s
    ELSE IF IsDict(el) THEN
        (IF HasKey(el, "action") THEN PyStr(Item(el, "action"))
         ELSE IF HasKey(el, "step") THEN PyStr(Item(el, "step"))
         ELSE "")
    ELSE PyStr(el)

NumberedLine(items, k) == ToString(k) \o ". " \o ElementText(items[k])

\* The indices of the elements of a steps list that are strings or dicts
TextualIndices(items) ==
    SelectSeq([k \in 1..Len(items) |-> k],
              LAMBDA k : IsStr(items[k]) \/ IsDict(items[k]))

StepsOtherwise(tc, text) ==
    LET steps == Get(tc, "steps", List(<<>>))
    IN  /\ IsStr(steps) => text = steps
        /\ (~IsStr(steps) /\ ~IsList(steps)) => text = Str("")

\* C6 as stated: a steps list of n elements gives n lines, the k-th numbered
\* k, none dropped; a string passes through; any other shape gives "".
StepsListGivesOneLinePerElement ==
    \A i \in RowIndices :
        LET steps == Get(TestCases[i], "steps", List(<<>>))
        IN  /\ IsList(steps) =>
                  Cell(rows[i], "Steps") =
                      Str(JoinNL([k \in 1..Len(steps.items) |->
                                      NumberedLine(steps.items, k)]))
            /\ StepsOtherwise(TestCases[i], Cell(rows[i], "Steps"))

\* C6 amended: a steps list gives one line per element that is a string or a
\* dict, the line of the k-th element of the list numbered k (an element of
\* another shape gives no line and its number is not used); so a list of n
\* strings and dicts gives n lines numbered 1..n.  A string passes through;
\* any other shape gives "".
StepsListGivesOneLinePerTextualElement ==
    \A i \in RowIndices :
        LET steps == Get(TestCases[i], "steps", List(<<>>))
        IN  /\ IsList(steps) =>
                  LET kept == TextualIndices(steps.items)
                  IN  Cell(rows[i], "Steps") =
                          Str(JoinNL([j \in 1..Len(kept) |->
                                          NumberedLine(steps.items, kept[j])]))
            /\ StepsOtherwise(TestCases[i], Cell(rows[i], "Steps"))

\* C6 witness: steps = ["open page", "click login"] was projected to
\* "1. open page\n2. click login".
TwoStepsFormatted ==
    \E i \in RowIndices :
        /\ Get(TestCases[i], "steps", Null)
              = List(<< Str("open page"), Str("click login") >>)
        /\ Cell(rows[i], "Steps") = Str("1. open page\n2. click login")

\* Every reference into v, in depth-first order, a node before what it holds
RECURSIVE AllRefs(_, _)
AllRefs(v, ref) ==
    << ref >> \o
    (IF IsDict(v) THEN
         Concat([i \in 1..Len(v.items) |-> AllRefs(v.items[i][2], Append(ref, i))])
     ELSE IF IsList(v) THEN
         Concat([i \in 1..Len(v.items) |-> AllRefs(v.items[i], Append(ref, i))])
     ELSE <<>>)

IsRecordAt(d, ref) == IsDict(ValueAt(d, ref)) /\ IsTestCase(ValueAt(d, ref))

IsProperPrefix(p, q) == Len(p) < Len(q) /\ SubSeq(q, 1, Len(p)) = p

\* An object with an indicator key none of whose enclosing objects has one
IsOutermostRecord(d, ref) ==
    /\ IsRecordAt(d, ref)
    /\ \A n \in 0..(Len(ref) - 1) : ~IsRecordAt(d, SubSeq(ref, 1, n))

\* C7: when no container key of an object document is mapped to a list, the
\* extraction returns every object that has an indicator key and lies inside
\* no other such object, at any depth, through objects and lists, each once
\* and in depth-first order.
DeepSearchFindsEveryOutermostRecord ==
    (/\ Extracted
     /\ IsDict(data)
     /\ \A i \in 1..Len(possible_keys) : ~IsListKey(data, possible_keys[i]))
        => test_cases = SelectSeq(AllRefs(data, <<>>),
                                 LAMBDA r : IsOutermostRecord(data, r))

\* C7 witness: a record three wrappers deep was found.
RecordThreeLevelsDeepFound ==
    /\ Extracted
    /\ data = Obj(<< <<"data", Obj(<< <<"data", Obj(<< <<"data",
                    Obj(<< <<"id", Str("TC1")>> >>)>> >>)>> >>)>> >>)
    /\ test_cases = << << 1, 1, 1 >> >>

\* The column labels of the export, in order
TwelveColumns ==
    << "ID", "Name", "Module", "Priority", "Preconditions", "Steps",
       "Expected", "Test Data", "Status", "Author", "Created", "Remarks" >>

\* C8: every row of an export has the same twelve column labels in the same
\* order, whatever fields its record has.
EveryRowHasTheTwelveColumns ==
    /\ \A i \in RowIndices : Labels(rows[i]) = TwelveColumns
    /\ generated # None =>
          \A i \in 1..Len(generated.file_content.table) :
              Labels(generated.file_content.table[i]) = TwelveColumns

\* C8 witness: an export of three rows made from records with different
\* fields.
ThreeDifferentRecordsExported ==
    /\ pc = "generated"
    /\ TestCases = << RecA, RecPlain, RecB >>
    /\ Len(rows) = 3

\* C9: no record the deep search returns lies inside another record it
\* returns, and an object document that itself has an indicator key is
\* returned alone and whole.
DeepSearchKeepsOutOfMatchedObjects ==
    (/\ Extracted
     /\ IsDict(data)
     /\ \A i \in 1..Len(possible_keys) :
           IsListKey(data, possible_keys[i]) => Item(data, possible_keys[i]).items = <<>>)
        => /\ \A i, j \in 1..Len(test_cases) :
                 ~IsProperPrefix(test_cases[i], test_cases[j])
           /\ IsTestCase(data) => test_cases = << <<>> >>

\* C9 witness: a record holding a record was returned alone.
ParentReturnedWithoutChild ==
    /\ Extracted
    /\ data = Obj(<< <<"title", Str("parent")>>,
                     <<"child", Obj(<< <<"id", Str("TC1")>> >>)>> >>)
    /\ test_cases = << <<>> >>

---------------------------------------------------------------------------
(* Properties of the token counter.                                        *)

\* The executions that have finished with a status-200 response
Counted == {t \in Tasks : task_pc[t] = "done" /\ response[t].status_code = 200}

\* The sums of the token fields of the responses of the executions in S
RECURSIVE SumInput(_)
SumInput(S) ==
    IF S = {} THEN 0
    ELSE LET t == CHOOSE x \in S : TRUE
         IN  InputTokens(response[t].body) + SumInput(S \ {t})

RECURSIVE SumOutput(_)
SumOutput(S) ==
    IF S = {} THEN 0
    ELSE LET t == CHOOSE x \in S : TRUE
         IN  OutputTokens(response[t].body) + SumOutput(S \ {t})

=============================================================================
